---- MODULE Spec2Model ----
(***************************************************************************)
(* Model of the iLQR solver of src/decentralized/control.py: the outer     *)
(* loop of iLQR.run (line search, jolt, regularization schedule,           *)
(* convergence test and return), one action per step of the loop.          *)
(*                                                                         *)
(* Numbers.  The regularization terms mu and Delta only ever hold 0 or a   *)
(* product of the program constants 1.0, 2.0 (DELTA_0) and 1e-6 (MU_MIN),   *)
(* so a float is kept exactly as  10^d * 2^e  (or zero); scaling a float   *)
(* by a power of two is exact, so the model computes what the code does.   *)
(* Costs are positive integers.  A trajectory (X or U) is kept as a token  *)
(* carrying the cost that rollout / forward_pass computed for it.          *)
(***************************************************************************)
EXTENDS Integers, Sequences, FiniteSets, TLC

VARIABLES
    cost,          \* self.cost / self.dynamics: the collaborators given to __init__
    cost_hist,     \* self.cost_hist (None is kept as the empty sequence)
    mu,            \* self.mu   (regularization)
    Delta,         \* self.Delta (regularization scaling)
    pc,            \* position of the caller / of run
    n_lqr_iter,    \* argument of run
    tol,           \* argument of run, a rational [num, den]
    jolt,          \* local of run
    is_converged,  \* local of run
    X, U,          \* locals of run: the accepted trajectory
    J_star,        \* local of run: the accepted cost
    i,             \* loop variable of the outer for loop (iterations completed)
    accept,        \* local of run
    Kd,            \* the gains K, d of the last backward pass (token of its inputs)
    lsIdx,         \* position of the line search in alphas_ls
    X_next, U_next,\* locals of run: the last forward pass's trajectory
    J,             \* local of run: the last forward pass's cost
    ret,           \* the triple run returned
    lastFail,      \* collaborators' history: inputs and last cost of the last failed line search
    tried,         \* history: exponents of the alphas tried in this iteration
    joltIter,      \* history: the iteration in which the jolt flag was set
    exit,          \* history: the way the outer loop was left
    entry          \* history: the instance as run found it, kept until the loop's first step

vars == << cost, cost_hist, mu, Delta, pc, n_lqr_iter, tol, jolt, is_converged,
           X, U, J_star, i, accept, Kd, lsIdx, X_next, U_next, J, ret,
           lastFail, tried, joltIter, exit, entry >>

---------------------------------------------------------------------------
(* Bounds of the model *)

\* rough collaborators: any cost in 1..MaxCost, at most MaxIter iterations
MaxCost == 4
MaxIter == 5
\* smooth collaborators: a trial changes the cost by at most one; the run
\* starts at cost DeepCost and is given DeepIter iterations
DeepCost == 7
DeepIter == 8

---------------------------------------------------------------------------
(* Floats of the form 10^d * 2^e, and zero *)

RECURSIVE Pow(_, _)
Pow(b, k) == IF k = 0 THEN 1 ELSE b * Pow(b, k - 1)

Zero == [z |-> TRUE, d |-> 0, e |-> 0]
One == [z |-> FALSE, d |-> 0, e |-> 0]

Mul(a, b) ==
    IF a.z \/ b.z THEN Zero
    ELSE [z |-> FALSE, d |-> a.d + b.d, e |-> a.e + b.e]

Div(a, b) ==
    IF a.z THEN Zero
    ELSE [z |-> FALSE, d |-> a.d - b.d, e |-> a.e - b.e]

\* a < b.  For nonzero a, b:  10^a.d 2^a.e < 10^b.d 2^b.e  iff  2^E < 10^D.
\* |D| <= 9 here, and 2^31 > 10^9, so shifts beyond 30 are decided without
\* computing the power.
Less(a, b) ==
    IF b.z THEN FALSE
    ELSE IF a.z THEN TRUE
    ELSE LET E == a.e - b.e
             D == b.d - a.d
         IN  IF D >= 0
             THEN IF E < 0 THEN TRUE
                  ELSE IF E = 0 THEN D > 0
                  ELSE E <= 30 /\ Pow(2, E) < Pow(10, D)
             ELSE IF -E > 30 THEN TRUE
                  ELSE -E > 0 /\ Pow(2, -E) > Pow(10, -D)

Leq(a, b) == ~Less(b, a)

Min(a, b) == IF Less(b, a) THEN b ELSE a
Max(a, b) == IF Less(a, b) THEN b ELSE a

---------------------------------------------------------------------------
(* Program constants *)

DELTA_0 == [z |-> FALSE, d |-> 0, e |-> 1]
MU_MIN == [z |-> FALSE, d |-> -6, e |-> 0]
MU_MAX == [z |-> FALSE, d |-> 3, e |-> 0]
N_LS_ITER == 10

\* alphas = 1.1 ** (-arange(N_LS_ITER)**2): alphas[k] = 1.1 ^ AlphaExp(k)
AlphaExp(k) == -(k * k)

---------------------------------------------------------------------------
(* Values of unbound names *)

Unbound == -1
NoX == [J |-> Unbound]
NoU == [zero |-> FALSE, J |-> Unbound]
NoKd == [X |-> NoX, U |-> NoU, mu |-> Zero]
NoFail == [Kd |-> NoKd, J |-> Unbound]
NoRet == [X |-> NoX, U |-> NoU, J |-> Unbound]

---------------------------------------------------------------------------
(* Collaborators and inputs *)

Collaborators == {"rough", "smooth"}

Tols == { [num |-> 1, den |-> 1000], [num |-> 1, den |-> 2] }

Iters == IF cost = "rough" THEN 0..MaxIter ELSE {DeepIter}

\* the costs rollout(x0, 0) can return, over the initial states x0
RolloutCosts == IF cost = "rough" THEN 1..MaxCost ELSE {DeepCost}

\* the costs a forward pass from a trajectory of cost c can return
PassCosts(c) ==
    IF cost = "rough" THEN 1..MaxCost
    ELSE {c - 1, c, c + 1} \cap (1..(DeepCost + 1))

\* Deterministic collaborators: a forward pass with the gains and trajectory
\* of the last failed line search fails again, and its last trial returns
\* the same cost.
FwdCosts ==
    IF lastFail.J # Unbound /\ lastFail.Kd = Kd
    THEN IF lsIdx = N_LS_ITER - 1 THEN {lastFail.J}
         ELSE {c \in PassCosts(J_star) : ~(c < J_star)}
    ELSE PassCosts(J_star)

---------------------------------------------------------------------------
(* Steps of run *)

\* mutant: the test written as J <= J_star
ImprovesOrTies(Jnew, Jold) == Jnew <= Jold

Improves(Jnew, Jold) == Jnew < Jold

\* np.abs((J_star - J) / J_star) < tol
Abs(x) == IF x < 0 THEN -x ELSE x
BelowTol(Jnew, Jold, t) == Abs(Jold - Jnew) * t.den < t.num * Abs(Jold)

DecayDelta(D) == Div(Min(One, D), DELTA_0)
\* mutant: the snap to 0.0 left out
DecayMuNoSnap(m, D) == Mul(m, D)

DecayMu(m, D) ==
    LET m2 == Mul(m, D)
    IN  IF Leq(m2, MU_MIN) THEN Zero ELSE m2

EscalateDelta(D) == Mul(Max(One, D), DELTA_0)
\* mutant: mu scaled by DELTA_0 instead of by Delta
EscalateMuByDelta0(m, D) == Max(MU_MIN, Mul(m, DELTA_0))

EscalateMu(m, D) == Max(MU_MIN, Mul(m, D))

ExceedsMax(m) == Leq(MU_MAX, m)

Init ==
    /\ cost \in Collaborators
    /\ cost_hist = << >>
    /\ mu = One
    /\ Delta = DELTA_0
    /\ pc = "idle"
    /\ n_lqr_iter = 0
    /\ tol = [num |-> 1, den |-> 1000]
    /\ jolt = FALSE
    /\ is_converged = FALSE
    /\ X = NoX
    /\ U = NoU
    /\ J_star = Unbound
    /\ i = 0
    /\ accept = FALSE
    /\ Kd = NoKd
    /\ lsIdx = 0
    /\ X_next = NoX
    /\ U_next = NoU
    /\ J = Unbound
    /\ ret = NoRet
    /\ lastFail = NoFail
    /\ tried = << >>
    /\ joltIter = -1
    /\ exit = "none"
    /\ entry = "none"

\* mutant: the reset of self.mu left out
RunStartKeepMu ==
    /\ pc \in {"idle", "done", "error"}
    /\ \E n \in Iters, t \in Tols, J0 \in RolloutCosts :
        /\ n_lqr_iter' = n
        /\ tol' = t
        /\ mu' = mu
        /\ Delta' = DELTA_0
        /\ jolt' = FALSE
        /\ is_converged' = FALSE
        /\ U' = [zero |-> TRUE, J |-> J0]
        /\ X' = [J |-> J0]
        /\ J_star' = J0
        /\ cost_hist' = << J0 >>
    /\ i' = 0
    /\ accept' = FALSE
    /\ Kd' = NoKd
    /\ lsIdx' = 0
    /\ X_next' = NoX
    /\ U_next' = NoU
    /\ J' = Unbound
    /\ ret' = NoRet
    /\ lastFail' = NoFail
    /\ tried' = << >>
    /\ joltIter' = -1
    /\ exit' = "none"
    /\ entry' = IF pc = "idle" THEN "fresh"
                ELSE IF mu = One /\ Delta = DELTA_0 THEN "used" ELSE "dirty"
    /\ pc' = "loop"
    /\ UNCHANGED cost

\* run(x0, n_lqr_iter, tol) is called: lines 169-182
RunStart ==
    /\ pc \in {"idle", "done", "error"}
    /\ \E n \in Iters, t \in Tols, J0 \in RolloutCosts :
        /\ n_lqr_iter' = n
        /\ tol' = t
        /\ mu' = One
        /\ Delta' = DELTA_0
        /\ jolt' = FALSE
        /\ is_converged' = FALSE
        /\ U' = [zero |-> TRUE, J |-> J0]
        /\ X' = [J |-> J0]
        /\ J_star' = J0
        /\ cost_hist' = << J0 >>
    /\ i' = 0
    /\ accept' = FALSE
    /\ Kd' = NoKd
    /\ lsIdx' = 0
    /\ X_next' = NoX
    /\ U_next' = NoU
    /\ J' = Unbound
    /\ ret' = NoRet
    /\ lastFail' = NoFail
    /\ tried' = << >>
    /\ joltIter' = -1
    /\ exit' = "none"
    /\ entry' = IF pc = "idle" THEN "fresh"
                ELSE IF mu = One /\ Delta = DELTA_0 THEN "used" ELSE "dirty"
    /\ pc' = "loop"
    /\ UNCHANGED cost

\* for i in range(n_lqr_iter): accept = False; K, d = backward_pass(X, U)
BackwardPass ==
    /\ pc = "loop"
    /\ i < n_lqr_iter
    /\ accept' = FALSE
    /\ Kd' = [X |-> X, U |-> U, mu |-> mu]
    /\ lsIdx' = 0
    /\ tried' = << >>
    /\ entry' = "none"
    /\ pc' = "ls"
    /\ UNCHANGED << cost, cost_hist, mu, Delta, n_lqr_iter, tol, jolt,
                    is_converged, X, U, J_star, i, X_next, U_next, J, ret,
                    lastFail, joltIter, exit >>

\* the outer for loop runs out of iterations
LoopExhausted ==
    /\ pc = "loop"
    /\ ~(i < n_lqr_iter)
    /\ exit' = "exhausted"
    /\ entry' = "none"
    /\ pc' = "return"
    /\ UNCHANGED << cost, cost_hist, mu, Delta, n_lqr_iter, tol, jolt,
                    is_converged, X, U, J_star, i, accept, Kd, lsIdx, X_next,
                    U_next, J, ret, lastFail, tried, joltIter >>

\* for alpha in alphas_ls: X_next, U_next, J = forward_pass(X, U, K, d, alpha)
ForwardPass ==
    /\ pc = "ls"
    /\ lsIdx < N_LS_ITER
    /\ \E c \in FwdCosts :
        /\ X_next' = [J |-> c]
        /\ U_next' = [zero |-> FALSE, J |-> c]
        /\ J' = c
    /\ tried' = Append(tried, AlphaExp(lsIdx))
    /\ pc' = "test"
    /\ UNCHANGED << cost, cost_hist, mu, Delta, n_lqr_iter, tol, jolt,
                    is_converged, X, U, J_star, i, accept, Kd, lsIdx, ret,
                    lastFail, joltIter, exit, entry >>

\* mutant: the break after an accepted step left out
AcceptNoBreak ==
    /\ pc = "test"
    /\ Improves(J, J_star)
    /\ is_converged' = (is_converged \/ BelowTol(J, J_star, tol))
    /\ X' = X_next
    /\ U' = U_next
    /\ J_star' = J
    /\ cost_hist' = Append(cost_hist, J)
    /\ Delta' = DecayDelta(Delta)
    /\ mu' = DecayMu(mu, DecayDelta(Delta))
    /\ accept' = TRUE
    /\ lsIdx' = lsIdx + 1
    /\ pc' = IF lsIdx + 1 < N_LS_ITER THEN "ls" ELSE "check"
    /\ UNCHANGED << cost, n_lqr_iter, tol, jolt, i, Kd, X_next, U_next,
                    J, ret, lastFail, tried, joltIter, exit, entry >>

\* if J < J_star: ... accept = True; break
Accept ==
    /\ pc = "test"
    /\ Improves(J, J_star)
    /\ is_converged' = (is_converged \/ BelowTol(J, J_star, tol))
    /\ X' = X_next
    /\ U' = U_next
    /\ J_star' = J
    /\ cost_hist' = Append(cost_hist, J)
    /\ Delta' = DecayDelta(Delta)
    /\ mu' = DecayMu(mu, DecayDelta(Delta))
    /\ accept' = TRUE
    /\ pc' = "check"
    /\ UNCHANGED << cost, n_lqr_iter, tol, jolt, i, Kd, lsIdx, X_next, U_next,
                    J, ret, lastFail, tried, joltIter, exit, entry >>

\* J >= J_star: the line search goes to the next alpha, or runs out of them
Reject ==
    /\ pc = "test"
    /\ ~Improves(J, J_star)
    /\ lsIdx' = lsIdx + 1
    /\ pc' = IF lsIdx + 1 < N_LS_ITER THEN "ls" ELSE "failed"
    /\ lastFail' = IF lsIdx + 1 < N_LS_ITER THEN lastFail
                   ELSE [Kd |-> Kd, J |-> J]
    /\ UNCHANGED << cost, cost_hist, mu, Delta, n_lqr_iter, tol, jolt,
                    is_converged, X, U, J_star, i, accept, Kd, X_next, U_next,
                    J, ret, tried, joltIter, exit, entry >>

\* mutant: the continue left out, the first failure escalates as well
JoltEscalates ==
    /\ pc = "failed"
    /\ ~jolt
    /\ jolt' = TRUE
    /\ joltIter' = i
    /\ Delta' = EscalateDelta(Delta)
    /\ mu' = EscalateMu(mu, EscalateDelta(Delta))
    /\ i' = i + 1
    /\ pc' = "loop"
    /\ UNCHANGED << cost, cost_hist, n_lqr_iter, tol, is_converged,
                    X, U, J_star, accept, Kd, lsIdx, X_next, U_next, J, ret,
                    lastFail, tried, exit, entry >>

\* mutant: the jolt retries the iteration without using up one of n_lqr_iter
JoltFreeRetry ==
    /\ pc = "failed"
    /\ ~jolt
    /\ jolt' = TRUE
    /\ joltIter' = i
    /\ pc' = "loop"
    /\ UNCHANGED << cost, cost_hist, mu, Delta, n_lqr_iter, tol, is_converged,
                    X, U, J_star, i, accept, Kd, lsIdx, X_next, U_next, J, ret,
                    lastFail, tried, exit, entry >>

\* if not accept: if not jolt: jolt = True; continue
Jolt ==
    /\ pc = "failed"
    /\ ~jolt
    /\ jolt' = TRUE
    /\ joltIter' = i
    /\ i' = i + 1
    /\ pc' = "loop"
    /\ UNCHANGED << cost, cost_hist, mu, Delta, n_lqr_iter, tol, is_converged,
                    X, U, J_star, accept, Kd, lsIdx, X_next, U_next, J, ret,
                    lastFail, tried, exit, entry >>

\* mutant: the break at MU_MAX left out
EscalateNoBreak ==
    /\ pc = "failed"
    /\ jolt
    /\ Delta' = EscalateDelta(Delta)
    /\ mu' = EscalateMu(mu, EscalateDelta(Delta))
    /\ pc' = "check"
    /\ UNCHANGED << cost, cost_hist, n_lqr_iter, tol, jolt, is_converged, X, U,
                    J_star, i, accept, Kd, lsIdx, X_next, U_next, J, ret,
                    lastFail, tried, joltIter, exit, entry >>

\* if not accept (jolt already used): increase regularization, break at MU_MAX
Escalate ==
    /\ pc = "failed"
    /\ jolt
    /\ Delta' = EscalateDelta(Delta)
    /\ mu' = EscalateMu(mu, EscalateDelta(Delta))
    /\ IF ExceedsMax(EscalateMu(mu, EscalateDelta(Delta)))
       THEN pc' = "return" /\ exit' = "mu_exceeded"
       ELSE pc' = "check" /\ exit' = exit
    /\ UNCHANGED << cost, cost_hist, n_lqr_iter, tol, jolt, is_converged, X, U,
                    J_star, i, accept, Kd, lsIdx, X_next, U_next, J, ret,
                    lastFail, tried, joltIter, entry >>

\* mutant: the break on convergence left out
ConvergedCheckNoBreak ==
    /\ pc = "check"
    /\ pc' = "loop"
    /\ i' = i + 1
    /\ UNCHANGED << cost, cost_hist, mu, Delta, n_lqr_iter, tol, jolt,
                    is_converged, X, U, J_star, accept, Kd, lsIdx, X_next,
                    U_next, J, ret, lastFail, tried, joltIter, exit, entry >>

\* if is_converged: break;  otherwise the next iteration
ConvergedCheck ==
    /\ pc = "check"
    /\ IF is_converged
       THEN pc' = "return" /\ exit' = "converged" /\ i' = i
       ELSE pc' = "loop" /\ exit' = exit /\ i' = i + 1
    /\ UNCHANGED << cost, cost_hist, mu, Delta, n_lqr_iter, tol, jolt,
                    is_converged, X, U, J_star, accept, Kd, lsIdx, X_next,
                    U_next, J, ret, lastFail, tried, joltIter, entry >>

\* return X, U, J   (J is unbound when the loop body never ran)
Return ==
    /\ pc = "return"
    /\ IF J = Unbound
       THEN pc' = "error" /\ ret' = ret
       ELSE pc' = "done" /\ ret' = [X |-> X, U |-> U, J |-> J]
    /\ UNCHANGED << cost, cost_hist, mu, Delta, n_lqr_iter, tol, jolt,
                    is_converged, X, U, J_star, i, accept, Kd, lsIdx, X_next,
                    U_next, J, lastFail, tried, joltIter, exit, entry >>

Next ==
    \/ RunStart
    \/ BackwardPass
    \/ LoopExhausted
    \/ ForwardPass
    \/ Accept
    \/ Reject
    \/ Jolt
    \/ Escalate
    \/ ConvergedCheck
    \/ Return

Spec == Init /\ [][Next]_vars

\* run is straight-line sequential code: once called, each of its steps is taken
RunStep ==
    \/ BackwardPass
    \/ LoopExhausted
    \/ ForwardPass
    \/ Accept
    \/ Reject
    \/ Jolt
    \/ Escalate
    \/ ConvergedCheck
    \/ Return

FairSpec == Spec /\ WF_vars(RunStep)

---------------------------------------------------------------------------
(* Properties *)

InRun == pc \notin {"idle", "done", "error"}
Last(h) == h[Len(h)]
TwoTo(k) == [z |-> FALSE, d |-> 0, e |-> k]

\* C1: on every exit path of run (n_lqr_iter >= 1) the returned J is the cost
\* of the returned trajectory (X, U): it equals J_star and the last entry of
\* cost_hist, never the cost of a rejected line-search trial.
C1_ReturnsLastAccepted ==
    pc = "done" =>
        /\ ret.X = X /\ ret.U = U
        /\ ret.J = ret.X.J
        /\ ret.J = J_star
        /\ ret.J = Last(cost_hist)

\* C2 as stated: mu stays within [0, MU_MAX] in every reachable state,
\* including when the loop aborts for exceeded regularization.
C2_MuWithinBounds == Leq(Zero, mu) /\ Leq(mu, MU_MAX)

\* C2 amended: mu >= 0 always; mu < MU_MAX wherever the loop goes on, and
\* mu >= MU_MAX exactly when the loop was left for exceeded regularization
\* (where mu is not clamped and may be above MU_MAX).
C2_MuBelowMaxWhileIterating ==
    /\ Leq(Zero, mu)
    /\ (pc \in {"loop", "ls", "test", "failed", "check"} => Less(mu, MU_MAX))
    /\ (exit = "mu_exceeded" <=> Leq(MU_MAX, mu))

C2_Witness == exit = "mu_exceeded" /\ pc = "done" /\ Less(MU_MAX, mu)

\* C3: during run, cost_hist starts as the single initial rollout cost, only
\* grows by appending a forward-pass cost J < J_star, is strictly decreasing,
\* and its last entry is the current J_star.
C3_CostHistDecreasing ==
    /\ [](pc # "idle" =>
            /\ Len(cost_hist) >= 1
            /\ Last(cost_hist) = J_star
            /\ \A k \in 1..(Len(cost_hist) - 1) : cost_hist[k + 1] < cost_hist[k])
    /\ [][InRun =>
            \/ cost_hist' = cost_hist
            \/ /\ pc = "test" /\ J < J_star
               /\ cost_hist' = Append(cost_hist, J)]_vars
    /\ [][~InRun => cost_hist' = << J_star' >> /\ X'.J = J_star']_vars

C3_Witness == pc = "check" /\ accept /\ Len(cost_hist) >= 3

\* C4: the outer loop ends after at most n_lqr_iter backward passes in exactly
\* one of three outcomes (converged: an accepted step of this iteration had
\* relative improvement < tol; regularization exceeded: mu >= MU_MAX right
\* after a failed line search; iterations exhausted otherwise), and no
\* iteration runs after the outcome.
C4_Terminates ==
    /\ [](/\ i <= n_lqr_iter
          /\ (pc \in {"ls", "test", "failed", "check"} => i < n_lqr_iter)
          /\ (is_converged => pc \in {"check", "return", "done"} /\ accept)
          /\ (exit # "none" <=> pc \in {"return", "done", "error"})
          /\ (exit = "converged" <=>
                /\ pc \in {"return", "done"} /\ accept /\ is_converged
                /\ Len(cost_hist) >= 2
                /\ BelowTol(Last(cost_hist), cost_hist[Len(cost_hist) - 1], tol))
          /\ (exit = "mu_exceeded" <=>
                pc \in {"return", "done"} /\ ~accept /\ Leq(MU_MAX, mu))
          /\ (exit = "exhausted" <=>
                /\ pc \in {"return", "done", "error"} /\ i = n_lqr_iter
                /\ ~is_converged /\ Less(mu, MU_MAX)))
    /\ [][exit # "none" /\ InRun => exit' = exit /\ pc' \in {"done", "error"}]_vars
    /\ (InRun ~> ~InRun)

C4_Witness ==
    /\ pc = "done" /\ exit = "converged" /\ i + 1 = n_lqr_iter /\ jolt

\* C5 as stated: in a run where every line search fails, mu grows by the
\* factor DELTA_0 = 2 with each failed iteration after the jolt.
C5_MuDoublesPerFailure ==
    (pc = "loop" /\ jolt /\ Len(cost_hist) = 1) => mu = TwoTo(i - 1)

\* C5 amended: in a run where every line search fails, it is Delta that grows
\* by the factor DELTA_0 with each failed iteration after the jolt, and mu is
\* multiplied by the new Delta (4, 8, 16, 32: mu = 1, 4, 32, 512, 16384); the
\* loop is left without an error at the first failed iteration with
\* mu >= 1e3, which is the fifth iteration, or earlier when n_lqr_iter < 5.
C5_AllFailSchedule ==
    Len(cost_hist) = 1 =>
        /\ (pc = "loop" /\ jolt =>
                /\ Delta = TwoTo(i)
                /\ mu = TwoTo(((i - 1) * (i + 2)) \div 2))
        /\ (exit = "mu_exceeded" =>
                i = 4 /\ mu = TwoTo(14) /\ Delta = TwoTo(5))
        /\ (pc \in {"done", "error"} /\ n_lqr_iter >= 5 => exit = "mu_exceeded")
        /\ (pc \in {"done", "error"} /\ n_lqr_iter < 5 => exit = "exhausted")
        /\ (n_lqr_iter >= 1 => pc # "error")

C5_Witness ==
    Len(cost_hist) = 1 /\ pc = "done" /\ exit = "mu_exceeded"

\* C6 as stated: at every iteration boundary mu is 0 or strictly above
\* MU_MIN, never in (0, MU_MIN].
C6_NeverInFloorBand ==
    pc = "loop" => (mu = Zero \/ Less(MU_MIN, mu))

\* C6 amended: mu is 0 or at least MU_MIN, never in (0, MU_MIN); after the
\* decay of an accepted step it is 0 or strictly above MU_MIN; it is exactly
\* MU_MIN only after an escalation from mu = 0 (jolt set, Delta = DELTA_0).
C6_FloorBand ==
    /\ (mu = Zero \/ Leq(MU_MIN, mu))
    /\ (pc = "check" /\ accept => (mu = Zero \/ Less(MU_MIN, mu)))
    /\ (mu = MU_MIN => jolt /\ Delta = DELTA_0)

C6_Witness == pc = "loop" /\ mu = MU_MIN

\* C7: in each iteration the step sizes 1.1^(-k^2) are tried in strictly
\* decreasing order from alpha = 1, at most N_LS_ITER of them; the first
\* alpha whose cost is below J_star is accepted and no further alpha is tried.
C7_FirstImprovingAlpha ==
    /\ [](/\ Len(tried) <= N_LS_ITER
          /\ (Len(tried) >= 1 => tried[1] = 0)
          /\ \A k \in 1..(Len(tried) - 1) : tried[k + 1] < tried[k]
          /\ (accept => pc \notin {"ls", "test", "failed"})
          /\ (pc = "failed" => Len(tried) = N_LS_ITER /\ ~accept)
          /\ (pc = "check" /\ accept =>
                X = X_next /\ U = U_next /\ J_star = J /\ Len(tried) = lsIdx + 1))
    /\ [][pc = "test" /\ J < J_star =>
            accept' /\ pc' = "check" /\ tried' = tried /\ X' = X_next]_vars
    /\ [][InRun /\ accept /\ tried' # tried => pc = "loop"]_vars

C7_Witness == pc = "check" /\ accept /\ Len(tried) = 3

StartState ==
    /\ mu = One
    /\ Delta = DELTA_0
    /\ ~jolt
    /\ ~is_converged
    /\ U.zero
    /\ cost_hist = << J_star >>
    /\ X.J = J_star /\ U.J = J_star
    /\ ~accept
    /\ J = Unbound
    /\ Kd = NoKd /\ X_next = NoX /\ U_next = NoU /\ lsIdx = 0
    /\ ret = NoRet /\ lastFail = NoFail

\* C8: every call of run starts from the same solver state whatever earlier
\* calls on the instance left behind: mu = 1, Delta = DELTA_0, jolt and
\* convergence flag cleared, U = 0, cost_hist the one-element list of the
\* initial rollout cost; nothing else a step of run reads survives the call.
C8_RunStartsFromReset ==
    (pc = "loop" /\ i = 0) => StartState

C8_Witness == pc = "loop" /\ i = 0 /\ entry = "dirty" /\ StartState

\* C9: the first total line-search failure of a run sets the jolt flag and
\* leaves X, U, J_star, mu, Delta and cost_hist unchanged; the flag stays set
\* for the rest of the run, and every later total failure increases the
\* regularization: Delta := max(1, Delta) * DELTA_0, mu := max(MU_MIN, mu * Delta).
C9_JoltOnceThenEscalate ==
    /\ [][pc = "failed" /\ ~jolt =>
            /\ jolt'
            /\ UNCHANGED << X, U, J_star, mu, Delta, cost_hist >>]_vars
    /\ [][InRun /\ jolt => jolt']_vars
    /\ [][InRun /\ ~jolt /\ jolt' => pc = "failed"]_vars
    /\ [][pc = "failed" /\ jolt =>
            /\ Delta' = Mul(Max(One, Delta), DELTA_0)
            /\ mu' = Max(MU_MIN, Mul(mu, Delta'))
            /\ Less(mu, mu')
            /\ UNCHANGED << X, U, J_star, cost_hist, jolt >>]_vars

C9_Witness ==
    pc = "check" /\ ~accept /\ jolt /\ Len(cost_hist) >= 2 /\ joltIter = 0

====
